---------------------------- MODULE Spec2Model ----------------------------
(***************************************************************************)
(* habiticalib (src/src/habiticalib/lib.py): the avatar compositing,       *)
(* Habitica._cache_asset, Habitica.paste_image, Habitica.generate_avatar,  *)
(* the paging and rate limit handling of Habitica.get_group_members, and  *)
(* the client object itself: its constructor, login, the status mapping of *)
(* _request and the session it closes when used as a context manager.      *)
(*                                                                         *)
(* One Habitica client owns the asset cache (_assets_cache, _cache_order). *)
(* generate_avatar calls run as asyncio tasks on one event loop: a task    *)
(* keeps the loop until it suspends in the HTTP GET of paste_image or      *)
(* returns, so tasks switch only while a fetch is in flight.               *)
(***************************************************************************)
EXTENDS Naturals, Sequences, FiniteSets, TLC

VARIABLES
    cache_size,     \* Habitica._cache_size
    assets_cache,   \* Habitica._assets_cache : asset -> bytes
    cache_order,    \* Habitica._cache_order  : list of assets
    loop,           \* task running on the event loop, NoTask when it is free
    status,         \* per task: idle, running, fetching, returned, raised
    user_styles,    \* per task: the snapshot given to generate_avatar
    program,        \* per task: the paste_image calls of the render, in order
    pc,             \* per task: number of paste_image calls completed
    image,          \* per task: the canvas, the layers pasted in order
    attempted,      \* per task: the assets paste_image was called with
    response,       \* per task: the outcome of the latest HTTP GET
    skipped,        \* per task: the assets whose fetch failed and was logged
    error,          \* per task: the exception that left generate_avatar
    evicted,        \* assets deleted from the cache by _cache_asset, in order
    stored,         \* assets of the completed _cache_asset calls, in order
    gets,           \* assets of the HTTP GETs the client issued, in order
    faults,         \* number of failed fetches so far
    renders,        \* number of generate_avatar calls so far
    result,         \* per task: the value generate_avatar returned
    sink,           \* per task: fp, whether the image is written to it, and
                    \* whether image.save is queued in the executor

    server_members, \* number of members of the group, as the server has it
    gm_args,        \* get_group_members: the arguments of the call
    gm_state,       \* idle, requesting, sleeping, returned, raised
    gm_params,      \* params of the request of the innermost call
    gm_pages,       \* response.data of the calls that recursed, outermost first
    gm_requests,    \* the requests issued, in order
    gm_answer,      \* the latest answer: status and retry-after header
    gm_sleeps,      \* the delays of the asyncio.sleep calls, in order
    gm_result,      \* the data of the response get_group_members returned
    gm_error,       \* the exception that left get_group_members

    habitica,       \* the client object: none, ready, raised (no object)
    init_args,      \* the arguments of Habitica(...)
    _headers,       \* Habitica._headers
    _session,       \* Habitica._session: who created it, whether it is closed
    _close_session, \* Habitica._close_session
    context,        \* async with: outside, inside, left
    requests,       \* the requests handed to the session, in order
    outcome         \* how the latest call ended, and the answer it got

vars == <<cache_size, assets_cache, cache_order, loop, status, user_styles,
          program, pc,
          image, attempted, response, skipped, error, evicted, stored, gets,
          faults,
          renders, result, server_members, gm_args, gm_state, gm_params,
          gm_pages, gm_requests, gm_answer, gm_sleeps, gm_result, gm_error,
          sink, habitica, init_args, _headers, _session, _close_session,
          context, requests, outcome>>

cacheVars == <<assets_cache, cache_order, evicted, stored>>

\* the state of the avatar operations
avatarVars == <<cache_size, assets_cache, cache_order, loop, status,
                user_styles, program, pc, image, attempted, response,
                skipped, error, evicted, stored, gets, faults, renders,
                result, sink>>

\* the state of the client object and its session
clientVars == <<habitica, init_args, _headers, _session, _close_session,
                context, requests, outcome>>

\* the state of get_group_members
apiVars == <<server_members, gm_args, gm_state, gm_params, gm_pages,
             gm_requests, gm_answer, gm_sleeps, gm_result, gm_error>>

-----------------------------------------------------------------------------
(* Bounds *)

NumTasks == 2
MaxRenders == 2
MaxCacheSize == 2
MaxFaults == 1

Tasks == 1..NumTasks
NoTask == 0

-----------------------------------------------------------------------------
(* Python values *)

None == "None"

\* truth value of an optional string
Truthy(x) == x # None /\ x # ""

NoError == "NoError"

\* fp is a file path or a bytes buffer
Sinks == {"path", "BytesIO"}

NoSink == [fp |-> None, saved |-> FALSE, queued |-> FALSE]

-----------------------------------------------------------------------------
(* The snapshot: UserStyles *)

Slots == {"weapon", "armor", "head", "shield", "back", "headAccessory",
          "eyewear", "body"}

EquippedGear == [s \in Slots |-> None]

HairPreferences ==
    [color |-> None, base |-> 0, bangs |-> 0, beard |-> 0, mustache |-> 0,
     flower |-> 0]

PreferencesUserStyles ==
    [hair |-> HairPreferences, size |-> None, skin |-> None, shirt |-> None,
     chair |-> None, costume |-> FALSE, sleep |-> FALSE, background |-> None]

ItemsUserStyles ==
    [gear |-> [equipped |-> EquippedGear, costume |-> EquippedGear],
     currentMount |-> None, currentPet |-> None]

BuffsUserStyles ==
    [seafoam |-> FALSE, shinySeed |-> FALSE, snowball |-> FALSE,
     spookySparkles |-> FALSE]

StatsUserStyles == [buffs |-> BuffsUserStyles, Class |-> "warrior"]

UserStyles ==
    [items |-> ItemsUserStyles, preferences |-> PreferencesUserStyles,
     stats |-> StatsUserStyles]

\* the names of gear that does not follow the naming convention
BACKER_ONLY_GEAR ==
    [g \in {"armor_special_ks2019", "head_special_ks2019"} |->
        IF g = "armor_special_ks2019"
        THEN "BackerOnly-Equip-MythicGryphonArmor.gif"
        ELSE "BackerOnly-Equip-MythicGryphonHelm.gif"]

-----------------------------------------------------------------------------
(* generate_avatar: the paste_image calls of one render, in program order. *)
(* Which calls are made depends on the snapshot only; paste_image returns  *)
(* nothing to its caller.                                                  *)

Layer(asset, x, y) == [asset |-> asset, position |-> <<x, y>>]

If(cond, layers) == IF cond THEN layers ELSE <<>>

Range(seq) == {seq[i] : i \in DOMAIN seq}

\* a mount offset that does not depend on the mount
mount_offset_y_fixed(items) == 24

mount_offset_y(items) == IF Truthy(items.currentMount) THEN 0 ELSE 24

\* a paste_gear that draws the base item of a slot as well
paste_gear_base_drawn(s, gear_type) ==
    LET preferences == s.preferences
        gear_set == IF preferences.costume THEN s.items.gear.costume
                    ELSE s.items.gear.equipped
        gear == gear_set[gear_type]
        name == IF gear \in DOMAIN BACKER_ONLY_GEAR THEN BACKER_ONLY_GEAR[gear]
                ELSE IF gear_type = "armor" THEN preferences.size \o "_" \o gear
                ELSE gear
    IN  If(Truthy(gear), <<Layer(name, 24, mount_offset_y(s.items))>>)

\* a paste_gear that puts the size before the armor id and looks up the
\* result
paste_gear_size_first(s, gear_type) ==
    LET preferences == s.preferences
        gear_set == IF preferences.costume THEN s.items.gear.costume
                    ELSE s.items.gear.equipped
        gear == gear_set[gear_type]
        sized == IF gear_type = "armor" THEN preferences.size \o "_" \o gear
                 ELSE gear
        name == IF sized \in DOMAIN BACKER_ONLY_GEAR
                THEN BACKER_ONLY_GEAR[sized] ELSE sized
    IN  If(Truthy(gear) /\ gear # gear_type \o "_base_0",
           <<Layer(name, 24, mount_offset_y(s.items))>>)

\* a paste_gear that takes the armor from the equipped map whatever the
\* costume preference
paste_gear_armor_equipped(s, gear_type) ==
    LET preferences == s.preferences
        gear_set == IF preferences.costume /\ gear_type # "armor"
                    THEN s.items.gear.costume
                    ELSE s.items.gear.equipped
        gear == gear_set[gear_type]
        name == IF gear \in DOMAIN BACKER_ONLY_GEAR THEN BACKER_ONLY_GEAR[gear]
                ELSE IF gear_type = "armor" THEN preferences.size \o "_" \o gear
                ELSE gear
    IN  If(Truthy(gear) /\ gear # gear_type \o "_base_0",
           <<Layer(name, 24, mount_offset_y(s.items))>>)

paste_gear(s, gear_type) ==
    LET preferences == s.preferences
        gear_set == IF preferences.costume THEN s.items.gear.costume
                    ELSE s.items.gear.equipped
        gear == gear_set[gear_type]
        name == IF gear \in DOMAIN BACKER_ONLY_GEAR THEN BACKER_ONLY_GEAR[gear]
                ELSE IF gear_type = "armor" THEN preferences.size \o "_" \o gear
                ELSE gear
    IN  If(Truthy(gear) /\ gear # gear_type \o "_base_0",
           <<Layer(name, 24, mount_offset_y(s.items))>>)

paste_hair(s, hair_type) ==
    LET hair == s.preferences.hair
        style == hair[hair_type]
    IN  If(style # 0,
           <<Layer("hair_" \o hair_type \o "_" \o ToString(style) \o "_"
                       \o hair.color,
                   24, mount_offset_y(s.items))>>)

paste_hairflower(s) ==
    LET flower == s.preferences.hair.flower
    IN  If(flower # 0,
           <<Layer("hair_flower_" \o ToString(flower), 24,
                   mount_offset_y(s.items))>>)

\* a branch test that forgets the snowball buff
AnyBuff_without_snowball(s) ==
    LET buffs == s.stats.buffs
    IN  buffs.seafoam \/ buffs.shinySeed \/ buffs.spookySparkles

AnyBuff(s) ==
    LET buffs == s.stats.buffs
    IN  buffs.seafoam \/ buffs.shinySeed \/ buffs.snowball
            \/ buffs.spookySparkles

\* a buff branch that draws the snowball avatar under the snowball buff
BuffLayers_snowball_gated(s) ==
    LET buffs == s.stats.buffs
        y == mount_offset_y(s.items)
    IN  If(buffs.spookySparkles, <<Layer("ghost", 24, y)>>)
        \o If(buffs.snowball,
              <<Layer("avatar_snowball_" \o s.stats.Class, 24, y)>>)
        \o If(buffs.shinySeed,
              <<Layer("avatar_floral_" \o s.stats.Class, 24, y)>>)
        \o If(buffs.seafoam, <<Layer("seafoam_star", 24, y)>>)
        \o paste_hairflower(s)

BuffLayers(s) ==
    LET buffs == s.stats.buffs
        y == mount_offset_y(s.items)
    IN  If(buffs.spookySparkles, <<Layer("ghost", 24, y)>>)
        \o If(buffs.shinySeed,
              <<Layer("avatar_snowball_" \o s.stats.Class, 24, y)>>)
        \o If(buffs.shinySeed,
              <<Layer("avatar_floral_" \o s.stats.Class, 24, y)>>)
        \o If(buffs.seafoam, <<Layer("seafoam_star", 24, y)>>)
        \o paste_hairflower(s)

\* a gear branch that pastes the armor before the head base
GearLayers_armor_before_head(s) ==
    LET preferences == s.preferences
        y == mount_offset_y(s.items)
    IN  If(Truthy(preferences.chair) /\ preferences.chair # "none",
           <<Layer("chair_" \o preferences.chair, 24, 0)>>)
        \o paste_gear(s, "back")
        \o <<Layer("skin_" \o preferences.skin
                       \o (IF preferences.sleep THEN "_sleep" ELSE ""),
                   24, y)>>
        \o <<Layer(preferences.size \o "_shirt_" \o preferences.shirt, 24, y)>>
        \o paste_gear(s, "armor")
        \o <<Layer("head_0", 24, y)>>
        \o paste_hair(s, "bangs") \o paste_hair(s, "base")
        \o paste_hair(s, "mustache") \o paste_hair(s, "beard")
        \o paste_gear(s, "body") \o paste_gear(s, "eyewear")
        \o paste_gear(s, "head") \o paste_gear(s, "headAccessory")
        \o paste_hairflower(s)
        \o paste_gear(s, "shield")
        \o paste_gear(s, "weapon")

GearLayers(s) ==
    LET preferences == s.preferences
        y == mount_offset_y(s.items)
    IN  If(Truthy(preferences.chair) /\ preferences.chair # "none",
           <<Layer("chair_" \o preferences.chair, 24, 0)>>)
        \o paste_gear(s, "back")
        \o <<Layer("skin_" \o preferences.skin
                       \o (IF preferences.sleep THEN "_sleep" ELSE ""),
                   24, y)>>
        \o <<Layer(preferences.size \o "_shirt_" \o preferences.shirt, 24, y)>>
        \o <<Layer("head_0", 24, y)>>
        \o paste_gear(s, "armor")
        \o paste_hair(s, "bangs") \o paste_hair(s, "base")
        \o paste_hair(s, "mustache") \o paste_hair(s, "beard")
        \o paste_gear(s, "body") \o paste_gear(s, "eyewear")
        \o paste_gear(s, "head") \o paste_gear(s, "headAccessory")
        \o paste_hairflower(s)
        \o paste_gear(s, "shield")
        \o paste_gear(s, "weapon")

\* a render that draws the pet before the head of the mount
Layers_pet_before_mount_head(s) ==
    LET preferences == s.preferences
        items == s.items
    IN  If(Truthy(preferences.background),
           <<Layer("background_" \o preferences.background, 0, 0)>>)
        \o If(Truthy(items.currentMount),
              <<Layer("Mount_Body_" \o items.currentMount, 24, 18)>>)
        \o (IF AnyBuff(s) THEN BuffLayers(s) ELSE GearLayers(s))
        \o If(preferences.sleep,
              <<Layer("zzz", 24, mount_offset_y(items))>>)
        \o If(Truthy(items.currentPet),
              <<Layer("Pet-" \o items.currentPet, 0, 48)>>)
        \o If(Truthy(items.currentMount),
              <<Layer("Mount_Head_" \o items.currentMount, 24, 18)>>)

Layers(s) ==
    LET preferences == s.preferences
        items == s.items
    IN  If(Truthy(preferences.background),
           <<Layer("background_" \o preferences.background, 0, 0)>>)
        \o If(Truthy(items.currentMount),
              <<Layer("Mount_Body_" \o items.currentMount, 24, 18)>>)
        \o (IF AnyBuff(s) THEN BuffLayers(s) ELSE GearLayers(s))
        \o If(preferences.sleep,
              <<Layer("zzz", 24, mount_offset_y(items))>>)
        \o If(Truthy(items.currentMount),
              <<Layer("Mount_Head_" \o items.currentMount, 24, 18)>>)
        \o If(Truthy(items.currentPet),
              <<Layer("Pet-" \o items.currentPet, 0, 48)>>)

-----------------------------------------------------------------------------
(* The snapshots the renders are called with.                              *)

Field(path, value) == [path |-> path, value |-> value]

GearTweaks ==
    {Field(<<"items", "gear", "equipped", g>>, g \o "_base_0") : g \in Slots}
    \cup {Field(<<"items", "gear", "equipped", g>>, g \o "_warrior_1") :
            g \in Slots}
    \cup {Field(<<"items", "gear", "costume", g>>, g \o "_warrior_1") :
            g \in Slots}
    \cup {Field(<<"items", "gear", "equipped", "armor">>,
                "armor_special_ks2019"),
          Field(<<"items", "gear", "equipped", "head">>,
                "head_special_ks2019")}

\* fields set back to their defaults
UnsetTweaks ==
    {Field(<<"preferences", "background">>, None),
     Field(<<"preferences", "sleep">>, FALSE),
     Field(<<"items", "currentMount">>, None),
     Field(<<"items", "currentPet">>, None),
     Field(<<"preferences", "hair", "bangs">>, 0),
     Field(<<"preferences", "hair", "base">>, 0),
     Field(<<"preferences", "hair", "mustache">>, 0),
     Field(<<"preferences", "hair", "beard">>, 0),
     Field(<<"preferences", "hair", "flower">>, 0),
     Field(<<"stats", "buffs", "seafoam">>, FALSE),
     Field(<<"stats", "buffs", "shinySeed">>, FALSE),
     Field(<<"stats", "buffs", "snowball">>, FALSE),
     Field(<<"stats", "buffs", "spookySparkles">>, FALSE)}
    \cup {Field(<<"items", "gear", "equipped", g>>, None) : g \in Slots}

Tweaks ==
    {Field(<<"preferences", "background">>, "010"),
     Field(<<"preferences", "chair">>, "none"),
     Field(<<"preferences", "chair">>, "throne"),
     Field(<<"preferences", "costume">>, TRUE),
     Field(<<"preferences", "sleep">>, TRUE),
     Field(<<"preferences", "size">>, "broad"),
     Field(<<"preferences", "skin">>, "5"),
     Field(<<"preferences", "shirt">>, "blue"),
     Field(<<"items", "currentMount">>, "Wolf-Base"),
     Field(<<"items", "currentPet">>, "Wolf-Base"),
     Field(<<"stats", "Class">>, "wizard"),
     Field(<<"preferences", "hair", "color">>, "red"),
     Field(<<"preferences", "hair", "bangs">>, 1),
     Field(<<"preferences", "hair", "base">>, 1),
     Field(<<"preferences", "hair", "mustache">>, 1),
     Field(<<"preferences", "hair", "beard">>, 1),
     Field(<<"preferences", "hair", "flower">>, 1),
     Field(<<"stats", "buffs", "seafoam">>, TRUE),
     Field(<<"stats", "buffs", "shinySeed">>, TRUE),
     Field(<<"stats", "buffs", "snowball">>, TRUE),
     Field(<<"stats", "buffs", "spookySparkles">>, TRUE)}
    \cup UnsetTweaks
    \cup GearTweaks

Tweak(s, f) ==
    LET p == f.path
    IN  CASE Len(p) = 2 -> [s EXCEPT ![p[1]][p[2]] = f.value]
          [] Len(p) = 3 -> [s EXCEPT ![p[1]][p[2]][p[3]] = f.value]
          [] OTHER -> [s EXCEPT ![p[1]][p[2]][p[3]][p[4]] = f.value]

\* a fully dressed avatar: every optional layer of the gear branch is set
DressedStyles ==
    [items |->
        [gear |-> [equipped |-> [g \in Slots |-> g \o "_warrior_1"],
                   costume |-> [g \in Slots |-> g \o "_rogue_1"]],
         currentMount |-> "Wolf-Base", currentPet |-> "Wolf-Base"],
     preferences |->
        [hair |-> [color |-> "red", base |-> 1, bangs |-> 1, beard |-> 1,
                   mustache |-> 1, flower |-> 1],
         size |-> "slim", skin |-> "5", shirt |-> "blue", chair |-> "throne",
         costume |-> FALSE, sleep |-> TRUE, background |-> "010"],
     stats |-> StatsUserStyles]

\* the same avatar under every visual buff
BuffedStyles ==
    [DressedStyles EXCEPT
        !.stats.buffs = [seafoam |-> TRUE, shinySeed |-> TRUE,
                         snowball |-> TRUE, spookySparkles |-> TRUE]]

\* background 010, skin 5, shirt blue, size slim, nothing else
PlainStyles ==
    [UserStyles EXCEPT !.preferences.background = "010",
                       !.preferences.skin = "5",
                       !.preferences.shirt = "blue",
                       !.preferences.size = "slim"]

\* mount and pet Wolf-Base, no buffs
RiderStyles ==
    [UserStyles EXCEPT !.items.currentMount = "Wolf-Base",
                       !.items.currentPet = "Wolf-Base"]

BaseStyles ==
    {UserStyles, PlainStyles, RiderStyles, DressedStyles, BuffedStyles}

\* the snapshots of a single render: a base, or a base with one field changed
AllStyles == BaseStyles \cup {Tweak(s, f) : s \in BaseStyles, f \in Tweaks}

\* the snapshots of the renders that share one client
PoolStyles ==
    {UserStyles,
     Tweak(UserStyles, Field(<<"preferences", "background">>, "010")),
     Tweak(UserStyles, Field(<<"preferences", "sleep">>, TRUE)),
     Tweak(UserStyles, Field(<<"stats", "buffs", "seafoam">>, TRUE))}

-----------------------------------------------------------------------------
(* The asset server: the bytes of an asset are fixed.                      *)

Bytes(asset) == <<"bytes", asset>>

-----------------------------------------------------------------------------
(* Habitica._cache_asset *)

\* del self._assets_cache[key]
Del(cache, key) == [a \in DOMAIN cache \ {key} |-> cache[a]]

\* a cache that stores also when its size is zero
_cache_asset_unguarded(size, cache, order, asset, asset_data) ==
    IF Len(order) > size
    THEN LET oldest == Head(order)
         IN  [cache |-> (asset :> asset_data) @@ Del(cache, oldest),
              order |-> Append(Tail(order), asset),
              evicted |-> <<oldest>>, stored |-> <<asset>>,
              raised |-> NoError]
    ELSE [cache |-> (asset :> asset_data) @@ cache,
          order |-> Append(order, asset), evicted |-> <<>>,
          stored |-> <<asset>>, raised |-> NoError]

\* a cache that forgets the oldest asset in the order list only
_cache_asset_keeps_evicted(size, cache, order, asset, asset_data) ==
    IF size = 0
    THEN [cache |-> cache, order |-> order, evicted |-> <<>>,
          stored |-> <<>>, raised |-> NoError]
    ELSE IF Len(order) > size
    THEN [cache |-> (asset :> asset_data) @@ cache,
          order |-> Append(Tail(order), asset),
          evicted |-> <<Head(order)>>, stored |-> <<asset>>,
          raised |-> NoError]
    ELSE [cache |-> (asset :> asset_data) @@ cache,
          order |-> Append(order, asset), evicted |-> <<>>,
          stored |-> <<asset>>, raised |-> NoError]

_cache_asset(size, cache, order, asset, asset_data) ==
    IF size = 0
    THEN [cache |-> cache, order |-> order, evicted |-> <<>>,
          stored |-> <<>>, raised |-> NoError]
    ELSE IF Len(order) > size
    THEN LET oldest == Head(order)
         IN  IF oldest \notin DOMAIN cache
             THEN [cache |-> cache, order |-> Tail(order), evicted |-> <<>>,
                   stored |-> <<>>, raised |-> "KeyError"]
             ELSE [cache |-> (asset :> asset_data) @@ Del(cache, oldest),
                   order |-> Append(Tail(order), asset),
                   evicted |-> <<oldest>>, stored |-> <<asset>>,
                   raised |-> NoError]
    ELSE [cache |-> (asset :> asset_data) @@ cache,
          order |-> Append(order, asset), evicted |-> <<>>,
          stored |-> <<asset>>, raised |-> NoError]

-----------------------------------------------------------------------------
(* The Habitica API as get_group_members uses it:                          *)
(* GET api/v3/groups/<group>/members with the params lastId and limit.     *)

PAGE_LIMIT == 60

\* the page size of the server when the request names no limit
DEFAULT_LIMIT == 30

MaxMembers == 61
MaxRetries == 2

\* an optional integer or id: the set of its values, empty for None
Nothing == {}
Some(x) == {x}
ValueOf(optional) == CHOOSE x \in optional : TRUE

\* the sizes of the group
MemberCounts == {0, 1, 20, 30, 31, 40, PAGE_LIMIT, MaxMembers}

\* the limit argument: not given, out of range, in range
Limits ==
    {Nothing}
    \cup {Some(n) : n \in {0, 20, DEFAULT_LIMIT, PAGE_LIMIT, PAGE_LIMIT + 1}}

GroupIds == {None, "group-1"}

Min(a, b) == IF a <= b THEN a ELSE b

\* the members are identified by their place in the order of the server;
\* a page holds the members after lastId, at most limit of them
members_page(n, params) ==
    LET after == IF params.lastId = Nothing THEN 0
                 ELSE ValueOf(params.lastId)
        size == IF params.limit = Nothing THEN DEFAULT_LIMIT
                ELSE ValueOf(params.limit)
        count == IF after >= n THEN 0 ELSE Min(size, n - after)
    IN  [i \in 1..count |-> after + i]

NoHeaders == [h \in {} |-> None]

\* the retry-after header of an answer, in tenths of a second
RetryAfterHeaders ==
    {NoHeaders, "retry-after" :> 4, "retry-after" :> 15, "retry-after" :> 25}

\* round(float): to the nearest integer, a half to the even neighbour
round(tenths) ==
    LET q == tenths \div 10
        r == tenths % 10
    IN  IF r < 5 THEN q
        ELSE IF r > 5 THEN q + 1
        ELSE IF q % 2 = 0 THEN q ELSE q + 1

\* HabiticaException.retry_after
retry_after(headers) ==
    round(IF "retry-after" \in DOMAIN headers THEN headers["retry-after"]
          ELSE 0)

\* a _request that knows no rate limit error
_request_without_429(r) ==
    CASE r.status = 401 -> "NotAuthorizedError"
      [] r.status = 404 -> "NotFoundError"
      [] r.status = 400 -> "BadRequestError"
      [] r.status >= 400 -> "ClientResponseError"
      [] OTHER -> "ok"

\* Habitica._request: the exception an answer is turned into, or "ok"
_request(r) ==
    CASE r.status = 401 -> "NotAuthorizedError"
      [] r.status = 404 -> "NotFoundError"
      [] r.status = 400 -> "BadRequestError"
      [] r.status = 429 -> "TooManyRequestsError"
      [] r.status >= 400 -> "ClientResponseError"
      [] OTHER -> "ok"

\* the params dict of a call of get_group_members
Params(args, last_id) ==
    [includeTasks |-> IF args.tasks THEN "true" ELSE None,
     includeAllPublicFields |-> IF args.public_fields THEN "true" ELSE None,
     lastId |-> last_id,
     limit |-> IF args.limit # Nothing /\ args.limit # Some(0) THEN args.limit
               ELSE Nothing]

Request(args, params) ==
    [method |-> "get",
     url |-> "api/v3/groups/"
                \o (IF args.group_id = None THEN "party" ELSE args.group_id)
                \o "/members",
     params |-> params]

NoArgs == [limit |-> Nothing, tasks |-> FALSE, public_fields |-> FALSE,
           group_id |-> None]

NoAnswer == [status |-> 0, headers |-> NoHeaders]

\* no get_group_members call made yet
NoCall ==
    /\ gm_args = NoArgs
    /\ gm_state = "idle"
    /\ gm_params = Params(NoArgs, Nothing)
    /\ gm_pages = <<>>
    /\ gm_requests = <<>>
    /\ gm_answer = NoAnswer
    /\ gm_sleeps = <<>>
    /\ gm_result = <<>>
    /\ gm_error = NoError

-----------------------------------------------------------------------------
(* The client object: Habitica.__init__, __aenter__, __aexit__, login.     *)

MaxRequests == 3

\* the session argument: none, a session with its own User-Agent header,
\* a session without one
Sessions == {None, "session with User-Agent", "session"}

\* api_user and api_key: not given, empty, given
ApiUsers == {None, "", "user-1"}
ApiKeys == {None, "", "key-1"}

\* the status codes of the answers
Statuses == {200, 204, 302, 400, 401, 403, 404, 429, 500}

\* the data of a login response
LoginData == [id |-> "user-2", apiToken |-> "key-2"]

\* dict.update
Update(dict, other) ==
    [k \in DOMAIN dict \cup DOMAIN other |->
        IF k \in DOMAIN other THEN other[k] ELSE dict[k]]

NoSession == [created_by |-> None, closed |-> FALSE]

\* a constructor that takes a single credential for none
__init___lenient(args) ==
    LET client_headers == "X-CLIENT" :> "x-client"
        user_agent == "User-Agent" :> "user-agent"
        given == args.session # None
        headers == IF given
                   THEN Update(IF args.session = "session with User-Agent"
                               THEN NoHeaders ELSE user_agent,
                               client_headers)
                   ELSE NoHeaders
        session == IF given
                   THEN [created_by |-> "caller", closed |-> FALSE]
                   ELSE [created_by |-> "client", closed |-> FALSE]
        both == Truthy(args.api_user) /\ Truthy(args.api_key)
    IN  [_headers |-> IF both
                      THEN Update(headers, ("X-API-USER" :> args.api_user)
                                            @@ ("X-API-KEY" :> args.api_key))
                      ELSE headers,
         _session |-> session,
         _close_session |-> ~given,
         raised |-> NoError]

\* Habitica.__init__: the fields it has set when it returns or raises
__init__(args) ==
    LET client_headers == "X-CLIENT" :> "x-client"
        user_agent == "User-Agent" :> "user-agent"
        given == args.session # None
        headers == IF given
                   THEN Update(IF args.session = "session with User-Agent"
                               THEN NoHeaders ELSE user_agent,
                               client_headers)
                   ELSE NoHeaders
        session == IF given
                   THEN [created_by |-> "caller", closed |-> FALSE]
                   ELSE [created_by |-> "client", closed |-> FALSE]
        both == Truthy(args.api_user) /\ Truthy(args.api_key)
        one == Truthy(args.api_user) \/ Truthy(args.api_key)
    IN  [_headers |-> IF both
                      THEN Update(headers, ("X-API-USER" :> args.api_user)
                                            @@ ("X-API-KEY" :> args.api_key))
                      ELSE headers,
         _session |-> session,
         _close_session |-> ~given,
         raised |-> IF ~both /\ one THEN "ValueError" ELSE NoError]

NoArguments == [session |-> None, api_user |-> None, api_key |-> None]

NoOutcome == [call |-> None, status |-> 0, raised |-> NoError]

\* no client constructed yet
NoClient ==
    /\ habitica = "none"
    /\ init_args = NoArguments
    /\ _headers = NoHeaders
    /\ _session = NoSession
    /\ _close_session = FALSE
    /\ context = "outside"
    /\ requests = <<>>
    /\ outcome = NoOutcome

\* Habitica(session, "test", "test")
TestArguments == [session |-> "session", api_user |-> "test",
                  api_key |-> "test"]

TestClient ==
    /\ habitica = "ready"
    /\ init_args = TestArguments
    /\ _headers = __init__(TestArguments)._headers
    /\ _session = __init__(TestArguments)._session
    /\ _close_session = __init__(TestArguments)._close_session
    /\ context = "outside"
    /\ requests = <<>>
    /\ outcome = NoOutcome

-----------------------------------------------------------------------------
(* Initial states *)

EmptyCache == [a \in {} |-> <<>>]

InitTasks ==
    /\ loop = NoTask
    /\ status = [t \in Tasks |-> "idle"]
    /\ user_styles = [t \in Tasks |-> UserStyles]
    /\ program = [t \in Tasks |-> <<>>]
    /\ pc = [t \in Tasks |-> 0]
    /\ image = [t \in Tasks |-> <<>>]
    /\ attempted = [t \in Tasks |-> <<>>]
    /\ response = [t \in Tasks |-> None]
    /\ skipped = [t \in Tasks |-> <<>>]
    /\ error = [t \in Tasks |-> NoError]
    /\ result = [t \in Tasks |-> None]
    /\ sink = [t \in Tasks |-> NoSink]
    /\ evicted = <<>>
    /\ stored = <<>>
    /\ gets = <<>>
    /\ faults = 0
    /\ renders = 0

\* Habitica.__init__ ; _cache_size is set by the caller of the client
Init ==
    /\ cache_size \in 0..MaxCacheSize
    /\ assets_cache = EmptyCache
    /\ cache_order = <<>>
    /\ InitTasks
    /\ server_members = 0
    /\ NoCall
    /\ TestClient

-----------------------------------------------------------------------------
(* Actions *)

\* the layer paste_image is working on, or the next one
NextLayer(t) == program[t][pc[t] + 1]

Busy(t) == status[t] \in {"running", "fetching"}

Render(t, s, fp) ==
    /\ loop = NoTask
    /\ ~Busy(t)
    /\ renders < MaxRenders
    /\ renders' = renders + 1
    /\ loop' = t
    /\ status' = [status EXCEPT ![t] = "running"]
    /\ user_styles' = [user_styles EXCEPT ![t] = s]
    /\ program' = [program EXCEPT ![t] = Layers(s)]
    /\ pc' = [pc EXCEPT ![t] = 0]
    /\ image' = [image EXCEPT ![t] = <<>>]
    /\ attempted' = [attempted EXCEPT ![t] = <<>>]
    /\ response' = [response EXCEPT ![t] = None]
    /\ skipped' = [skipped EXCEPT ![t] = <<>>]
    /\ error' = [error EXCEPT ![t] = NoError]
    /\ result' = [result EXCEPT ![t] = None]
    /\ sink' = [sink EXCEPT ![t] = [NoSink EXCEPT !.fp = fp]]
    /\ UNCHANGED <<clientVars, apiVars, cache_size, cacheVars, gets, faults>>

\* a render into a bytes buffer
StartRender(t, s) == Render(t, s, "BytesIO")

\* generate_avatar(fp, user_styles) on a client that may be rendering
generate_avatar(t) ==
    /\ ~Busy(t)
    /\ \E s \in PoolStyles : StartRender(t, s)

\* generate_avatar(fp, user_styles) awaited one call after the other
generate_avatar_seq(t) ==
    /\ t = 1
    /\ \A u \in Tasks : ~Busy(u)
    /\ \E s \in PoolStyles : StartRender(t, s)

Attempt(layer, get) ==
    [asset |-> layer.asset, position |-> layer.position, get |-> get]

Pasted(layer, asset_data) ==
    [asset |-> layer.asset, position |-> layer.position, data |-> asset_data]

\* a cache that moves the entry it hands out to the end of the eviction order
paste_image_cached_lru(t) ==
    /\ loop = t
    /\ status[t] = "running"
    /\ pc[t] < Len(program[t])
    /\ LET layer == NextLayer(t)
       IN  /\ layer.asset \in DOMAIN assets_cache
           /\ attempted' = [attempted EXCEPT
                               ![t] = Append(@, Attempt(layer, FALSE))]
           /\ image' = [image EXCEPT
                           ![t] = Append(@, Pasted(layer,
                                                   assets_cache[layer.asset]))]
           /\ cache_order' =
                 Append(SelectSeq(cache_order, LAMBDA a : a # layer.asset),
                        layer.asset)
    /\ pc' = [pc EXCEPT ![t] = @ + 1]
    /\ UNCHANGED <<clientVars, apiVars, sink, result,
                   cache_size, assets_cache, evicted, stored, gets, loop,
                   status, user_styles,
                   program, response, skipped, error, faults, renders>>

\* paste_image, the asset is in the cache: no request, paste the cached bytes
paste_image_cached(t) ==
    /\ loop = t
    /\ status[t] = "running"
    /\ pc[t] < Len(program[t])
    /\ LET layer == NextLayer(t)
       IN  /\ layer.asset \in DOMAIN assets_cache
           /\ attempted' = [attempted EXCEPT
                               ![t] = Append(@, Attempt(layer, FALSE))]
           /\ image' = [image EXCEPT
                           ![t] = Append(@, Pasted(layer,
                                                   assets_cache[layer.asset]))]
    /\ pc' = [pc EXCEPT ![t] = @ + 1]
    /\ UNCHANGED <<clientVars, apiVars, sink, result,
                   cache_size, cacheVars, gets, loop, status, user_styles,
                   program, response, skipped, error, faults, renders>>

\* a paste_image that requests the asset without looking into the cache
paste_image_get_uncached(t) ==
    /\ loop = t
    /\ status[t] = "running"
    /\ pc[t] < Len(program[t])
    /\ attempted' = [attempted EXCEPT
                        ![t] = Append(@, Attempt(NextLayer(t), TRUE))]
    /\ gets' = Append(gets, NextLayer(t).asset)
    /\ status' = [status EXCEPT ![t] = "fetching"]
    /\ loop' = NoTask
    /\ UNCHANGED <<clientVars, apiVars, sink, result,
                   cache_size, cacheVars, user_styles, program, pc, image,
                   response, skipped, error, faults, renders>>

\* a paste_image that does not wait for the answer to its GET
paste_image_get_detached(t) ==
    /\ loop = t
    /\ status[t] = "running"
    /\ pc[t] < Len(program[t])
    /\ LET layer == NextLayer(t)
       IN  /\ layer.asset \notin DOMAIN assets_cache
           /\ attempted' = [attempted EXCEPT
                               ![t] = Append(@, Attempt(layer, TRUE))]
    /\ gets' = Append(gets, NextLayer(t).asset)
    /\ pc' = [pc EXCEPT ![t] = @ + 1]
    /\ UNCHANGED <<clientVars, apiVars, sink, result,
                   cache_size, cacheVars, user_styles, program, image,
                   status, loop, response, skipped, error, faults, renders>>

\* paste_image, the asset is not in the cache: issue the GET and suspend
paste_image_get(t) ==
    /\ loop = t
    /\ status[t] = "running"
    /\ pc[t] < Len(program[t])
    /\ LET layer == NextLayer(t)
       IN  /\ layer.asset \notin DOMAIN assets_cache
           /\ attempted' = [attempted EXCEPT
                               ![t] = Append(@, Attempt(layer, TRUE))]
    /\ gets' = Append(gets, NextLayer(t).asset)
    /\ status' = [status EXCEPT ![t] = "fetching"]
    /\ loop' = NoTask
    /\ UNCHANGED <<clientVars, apiVars, sink, result,
                   cache_size, cacheVars, user_styles, program, pc, image,
                   response, skipped, error, faults, renders>>

\* the GET succeeded: _cache_asset, then Image.open and image.paste
get_ok(t) ==
    /\ loop = NoTask
    /\ status[t] = "fetching"
    /\ LET layer == NextLayer(t)
           asset_data == Bytes(layer.asset)
           r == _cache_asset(cache_size, assets_cache, cache_order,
                             layer.asset, asset_data)
       IN  /\ assets_cache' = r.cache
           /\ cache_order' = r.order
           /\ evicted' = evicted \o r.evicted
           /\ stored' = stored \o r.stored
           /\ IF r.raised = NoError
              THEN /\ image' = [image EXCEPT
                                   ![t] = Append(@, Pasted(layer, asset_data))]
                   /\ pc' = [pc EXCEPT ![t] = @ + 1]
                   /\ status' = [status EXCEPT ![t] = "running"]
                   /\ loop' = t
                   /\ UNCHANGED error
              ELSE /\ status' = [status EXCEPT ![t] = "raised"]
                   /\ error' = [error EXCEPT ![t] = r.raised]
                   /\ UNCHANGED <<image, pc, loop>>
    /\ response' = [response EXCEPT ![t] = "ok"]
    /\ UNCHANGED <<clientVars, apiVars, sink, result,
                   cache_size, gets, user_styles, program, attempted,
                   skipped, faults, renders>>

\* except ClientResponseError / except ClientError: log, paste nothing
Skip(t, exception) ==
    /\ loop = NoTask
    /\ status[t] = "fetching"
    /\ faults < MaxFaults
    /\ faults' = faults + 1
    /\ skipped' = [skipped EXCEPT ![t] = Append(@, NextLayer(t).asset)]
    /\ pc' = [pc EXCEPT ![t] = @ + 1]
    /\ status' = [status EXCEPT ![t] = "running"]
    /\ loop' = t
    /\ response' = [response EXCEPT ![t] = exception]
    /\ UNCHANGED <<clientVars, apiVars, sink, result,
                   cache_size, cacheVars, gets, user_styles, program, image,
                   attempted, error, renders>>

\* a client that does not catch the error of an HTTP error status
get_ClientResponseError_uncaught(t) ==
    /\ loop = NoTask
    /\ status[t] = "fetching"
    /\ faults < MaxFaults
    /\ faults' = faults + 1
    /\ status' = [status EXCEPT ![t] = "raised"]
    /\ error' = [error EXCEPT ![t] = "ClientResponseError"]
    /\ response' = [response EXCEPT ![t] = "ClientResponseError"]
    /\ UNCHANGED <<clientVars, apiVars, sink, result,
                   cache_size, cacheVars, gets, loop, user_styles, program,
                   pc, image, attempted, skipped, renders>>

\* r.raise_for_status() raised ClientResponseError
get_ClientResponseError(t) ==
    /\ status[t] = "fetching"
    /\ Skip(t, "ClientResponseError")

\* a client that caches an empty body for the asset that failed
get_ClientError_cached(t) ==
    /\ loop = NoTask
    /\ status[t] = "fetching"
    /\ faults < MaxFaults
    /\ faults' = faults + 1
    /\ LET r == _cache_asset(cache_size, assets_cache, cache_order,
                             NextLayer(t).asset, <<>>)
       IN  /\ assets_cache' = r.cache
           /\ cache_order' = r.order
           /\ evicted' = evicted \o r.evicted
           /\ stored' = stored \o r.stored
    /\ skipped' = [skipped EXCEPT ![t] = Append(@, NextLayer(t).asset)]
    /\ pc' = [pc EXCEPT ![t] = @ + 1]
    /\ status' = [status EXCEPT ![t] = "running"]
    /\ loop' = t
    /\ response' = [response EXCEPT ![t] = "ClientError"]
    /\ UNCHANGED <<clientVars, apiVars, sink, result,
                   cache_size, gets, user_styles, program, image, attempted,
                   error, renders>>

\* a paste_image that requests the asset again after a connection failure
get_ClientError_retry(t) ==
    /\ loop = NoTask
    /\ status[t] = "fetching"
    /\ faults < MaxFaults
    /\ faults' = faults + 1
    /\ gets' = Append(gets, NextLayer(t).asset)
    /\ response' = [response EXCEPT ![t] = "ClientError"]
    /\ UNCHANGED <<clientVars, apiVars, sink, result,
                   cache_size, cacheVars, user_styles, program, image, pc,
                   status, loop, attempted, skipped, error, renders>>

\* the request raised another ClientError (connection failure)
get_ClientError(t) ==
    /\ status[t] = "fetching"
    /\ Skip(t, "ClientError")

\* the request timed out: TimeoutError is no ClientError and is not caught
get_TimeoutError(t) ==
    /\ loop = NoTask
    /\ status[t] = "fetching"
    /\ faults < MaxFaults
    /\ faults' = faults + 1
    /\ status' = [status EXCEPT ![t] = "raised"]
    /\ error' = [error EXCEPT ![t] = "TimeoutError"]
    /\ response' = [response EXCEPT ![t] = "TimeoutError"]
    /\ UNCHANGED <<clientVars, apiVars, sink, result,
                   cache_size, cacheVars, gets, loop, user_styles, program,
                   pc, image, attempted, skipped, renders>>

\* image.save and return user_styles
save_and_return(t) ==
    /\ loop = t
    /\ status[t] = "running"
    /\ pc[t] = Len(program[t])
    /\ status' = [status EXCEPT ![t] = "returned"]
    /\ loop' = NoTask
    /\ result' = [result EXCEPT ![t] = user_styles[t]]
    /\ sink' = [sink EXCEPT ![t] =
                    IF sink[t].fp = "path"
                    THEN [sink[t] EXCEPT !.queued = TRUE]
                    ELSE [sink[t] EXCEPT !.saved = TRUE]]
    /\ UNCHANGED <<clientVars, apiVars,
                   cache_size, cacheVars, gets, user_styles, program, pc,
                   image, attempted, response, skipped, error, faults,
                   renders>>

Steps(t) ==
    \/ paste_image_cached(t)
    \/ paste_image_get(t)
    \/ get_ok(t)
    \/ get_ClientResponseError(t)
    \/ get_ClientError(t)
    \/ get_TimeoutError(t)
    \/ save_and_return(t)

Next == \E t \in Tasks : generate_avatar(t) \/ Steps(t)

Spec == Init /\ [][Next]_vars

-----------------------------------------------------------------------------
(* One render of any snapshot, on a client with the default cache size     *)
(* that has rendered UserStyles() before.                                  *)

DefaultCacheSize == 32

InitLayers ==
    /\ cache_size = DefaultCacheSize
    /\ assets_cache = [a \in {l.asset : l \in Range(Layers(UserStyles))} |->
                            Bytes(a)]
    /\ cache_order = [i \in DOMAIN Layers(UserStyles) |->
                            Layers(UserStyles)[i].asset]
    /\ InitTasks
    /\ server_members = 0
    /\ NoCall
    /\ TestClient

generate_avatar_styles(t) ==
    /\ t = 1
    /\ renders = 0
    /\ \E s \in AllStyles : StartRender(t, s)

NextLayers == \E t \in Tasks : generate_avatar_styles(t) \/ Steps(t)

SpecLayers == InitLayers /\ [][NextLayers]_vars

-----------------------------------------------------------------------------
(* Renders awaited one after the other on one client.                      *)

NextSeq == \E t \in Tasks : generate_avatar_seq(t) \/ Steps(t)

SpecSeq == Init /\ [][NextSeq]_vars

-----------------------------------------------------------------------------
(* Habitica.get_group_members: one call on a client that renders nothing.  *)

RECURSIVE Flatten(_)
Flatten(pages) ==
    IF pages = <<>> THEN <<>> ELSE Head(pages) \o Flatten(Tail(pages))

InitMembers ==
    /\ cache_size = DefaultCacheSize
    /\ assets_cache = EmptyCache
    /\ cache_order = <<>>
    /\ InitTasks
    /\ server_members \in MemberCounts
    /\ NoCall
    /\ TestClient

\* the call: check limit, build url and params, issue the first request
get_group_members ==
    /\ gm_state = "idle"
    /\ \E limit \in Limits, tasks \in BOOLEAN, public_fields \in BOOLEAN,
          group_id \in GroupIds :
          LET args == [limit |-> limit, tasks |-> tasks,
                       public_fields |-> public_fields, group_id |-> group_id]
          IN  /\ gm_args' = args
              /\ IF /\ limit # Nothing
                    /\ (ValueOf(limit) < 1 \/ ValueOf(limit) > PAGE_LIMIT)
                 THEN /\ gm_state' = "raised"
                      /\ gm_error' = "ValueError"
                      /\ UNCHANGED <<gm_params, gm_requests>>
                 ELSE /\ gm_state' = "requesting"
                      /\ gm_params' = Params(args, Nothing)
                      /\ gm_requests' =
                            <<Request(args, Params(args, Nothing))>>
                      /\ UNCHANGED gm_error
    /\ UNCHANGED <<clientVars, avatarVars, server_members,
                   gm_pages, gm_answer, gm_sleeps,
                   gm_result>>

\* a page whose length differs from limit ends the paging
request_ok_last_page ==
    /\ gm_state = "requesting"
    /\ LET data == members_page(server_members, gm_params)
       IN  /\ gm_args.limit # Some(Len(data))
           /\ gm_result' = Flatten(gm_pages) \o data
    /\ gm_answer' = [status |-> 200, headers |-> NoHeaders]
    /\ gm_state' = "returned"
    /\ UNCHANGED <<clientVars, avatarVars, server_members,
                   gm_args, gm_params, gm_pages,
                   gm_requests, gm_sleeps, gm_error>>

\* a page of exactly limit members: the call for the page after its last one
request_ok_next_page ==
    /\ gm_state = "requesting"
    /\ LET data == members_page(server_members, gm_params)
           params == Params(gm_args, Some(data[Len(data)]))
       IN  /\ gm_args.limit = Some(Len(data))
           /\ gm_pages' = Append(gm_pages, data)
           /\ gm_params' = params
           /\ gm_requests' = Append(gm_requests, Request(gm_args, params))
    /\ gm_answer' = [status |-> 200, headers |-> NoHeaders]
    /\ UNCHANGED <<clientVars, avatarVars, server_members,
                   gm_args, gm_state, gm_sleeps,
                   gm_result, gm_error>>

\* a get_group_members that hands the rate limit error to its caller
request_TooManyRequestsError_raised ==
    /\ gm_state = "requesting"
    /\ Len(gm_sleeps) < MaxRetries
    /\ \E headers \in RetryAfterHeaders :
          gm_answer' = [status |-> 429, headers |-> headers]
    /\ gm_state' = "raised"
    /\ gm_error' = "TooManyRequestsError"
    /\ UNCHANGED <<clientVars, avatarVars, server_members,
                   gm_args, gm_params, gm_pages,
                   gm_requests, gm_sleeps, gm_result>>

\* HTTP 429: except TooManyRequestsError, asyncio.sleep(e.retry_after)
request_TooManyRequestsError ==
    /\ gm_state = "requesting"
    /\ Len(gm_sleeps) < MaxRetries
    /\ \E headers \in RetryAfterHeaders :
          LET r == [status |-> 429, headers |-> headers]
          IN  /\ _request(r) = "TooManyRequestsError"
              /\ gm_answer' = r
              /\ gm_sleeps' = Append(gm_sleeps, retry_after(r.headers))
    /\ gm_state' = "sleeping"
    /\ UNCHANGED <<clientVars, avatarVars, server_members,
                   gm_args, gm_params, gm_pages,
                   gm_requests, gm_result, gm_error>>

\* a sleep that never ends: the loop never reaches its next request
request_again_never ==
    /\ gm_state = "sleeping"
    /\ UNCHANGED vars

\* the sleep is over: the loop issues the request again
request_again ==
    /\ gm_state = "sleeping"
    /\ gm_state' = "requesting"
    /\ gm_requests' = Append(gm_requests, Request(gm_args, gm_params))
    /\ UNCHANGED <<clientVars, avatarVars, server_members,
                   gm_args, gm_params, gm_pages,
                   gm_answer, gm_sleeps, gm_result, gm_error>>

\* another error status: _request raises, nothing catches it
request_error ==
    /\ gm_state = "requesting"
    /\ \E code \in {400, 401, 404, 500} :
          LET r == [status |-> code, headers |-> NoHeaders]
          IN  /\ gm_answer' = r
              /\ gm_error' = _request(r)
    /\ gm_state' = "raised"
    /\ UNCHANGED <<clientVars, avatarVars, server_members,
                   gm_args, gm_params, gm_pages,
                   gm_requests, gm_sleeps, gm_result>>

\* no answer: the session raises a connection error or a timeout
request_failed ==
    /\ gm_state = "requesting"
    /\ \E exception \in {"ClientConnectionError", "TimeoutError"} :
          gm_error' = exception
    /\ gm_answer' = NoAnswer
    /\ gm_state' = "raised"
    /\ UNCHANGED <<clientVars, avatarVars, server_members,
                   gm_args, gm_params, gm_pages,
                   gm_requests, gm_sleeps, gm_result>>

NextMembers ==
    \/ get_group_members
    \/ request_ok_last_page
    \/ request_ok_next_page
    \/ request_TooManyRequestsError
    \/ request_again
    \/ request_error
    \/ request_failed

SpecMembers == InitMembers /\ [][NextMembers]_vars

\* the event loop resumes the coroutine when its sleep is over or its
\* request is answered, and the server answers every request
SpecMembersFair == SpecMembers /\ WF_vars(NextMembers)

-----------------------------------------------------------------------------
(* Renders into a file or into a bytes buffer, one after the other.        *)

\* generate_avatar(fp, user_styles), each call a task of its own
generate_avatar_fp(t) ==
    /\ status[t] = "idle"
    /\ \A u \in Tasks : ~Busy(u)
    /\ \E s \in PoolStyles, fp \in Sinks : Render(t, s, fp)

\* the executor runs image.save(fp) in one of its threads
image_save(t) ==
    /\ sink[t].queued
    /\ sink' = [sink EXCEPT ![t] = [sink[t] EXCEPT !.queued = FALSE,
                                                    !.saved = TRUE]]
    /\ UNCHANGED <<clientVars, apiVars, result,
                   cache_size, cacheVars, gets, loop, status, user_styles,
                   program, pc, image, attempted, response, skipped, error,
                   faults, renders>>

NextSave ==
    \E t \in Tasks : generate_avatar_fp(t) \/ Steps(t) \/ image_save(t)

SpecSave == Init /\ [][NextSave]_vars

-----------------------------------------------------------------------------
(* The life of one client object.                                          *)

InitClient ==
    /\ cache_size = DefaultCacheSize
    /\ assets_cache = EmptyCache
    /\ cache_order = <<>>
    /\ InitTasks
    /\ server_members = 0
    /\ NoCall
    /\ NoClient

\* Habitica(session, api_user, api_key)
Habitica ==
    /\ habitica = "none"
    /\ \E session \in Sessions, api_user \in ApiUsers, api_key \in ApiKeys :
          LET args == [session |-> session, api_user |-> api_user,
                       api_key |-> api_key]
              self == __init__(args)
          IN  /\ init_args' = args
              /\ _headers' = self._headers
              /\ _session' = self._session
              /\ _close_session' = self._close_session
              /\ habitica' = IF self.raised = NoError THEN "ready"
                             ELSE "raised"
              /\ outcome' = [call |-> "__init__", status |-> 0,
                             raised |-> self.raised]
    /\ UNCHANGED <<avatarVars, apiVars, context, requests>>

__aenter__ ==
    /\ habitica = "ready"
    /\ context = "outside"
    /\ context' = "inside"
    /\ UNCHANGED <<avatarVars, apiVars, habitica, init_args, _headers,
                   _session, _close_session, requests, outcome>>

\* a client that closes whatever session it holds
__aexit___any_session ==
    /\ context = "inside"
    /\ context' = "left"
    /\ _session' = [_session EXCEPT !.closed = TRUE]
    /\ UNCHANGED <<avatarVars, apiVars, habitica, init_args, _headers,
                   _close_session, requests, outcome>>

__aexit__ ==
    /\ context = "inside"
    /\ context' = "left"
    /\ _session' = IF _close_session THEN [_session EXCEPT !.closed = TRUE]
                   ELSE _session
    /\ UNCHANGED <<avatarVars, apiVars, habitica, init_args, _headers,
                   _close_session, requests, outcome>>

\* the request _request hands to the session
Sent(method, url) ==
    [method |-> method, url |-> url, headers |-> _headers]

LoginUrl == "api/v3/user/auth/local/login"

\* a login that puts the credentials into the headers before it has the
\* answer
login_headers_first ==
    /\ habitica = "ready"
    /\ ~_session.closed
    /\ Len(requests) < MaxRequests
    /\ requests' = Append(requests, Sent("post", LoginUrl))
    /\ \E code \in Statuses :
          LET r == [status |-> code, headers |-> NoHeaders]
          IN  outcome' = [call |-> "login", status |-> code,
                          raised |-> IF _request(r) = "ok" THEN NoError
                                     ELSE _request(r)]
    /\ _headers' = Update(_headers, ("X-API-USER" :> LoginData.id)
                                     @@ ("X-API-KEY" :> LoginData.apiToken))
    /\ UNCHANGED <<avatarVars, apiVars, habitica, init_args, _session,
                   _close_session, context>>

\* login(username, password): POST, then the headers are updated
login ==
    /\ habitica = "ready"
    /\ ~_session.closed
    /\ Len(requests) < MaxRequests
    /\ requests' = Append(requests, Sent("post", LoginUrl))
    /\ \E code \in Statuses :
          LET r == [status |-> code, headers |-> NoHeaders]
          IN  IF _request(r) = "ok"
              THEN /\ outcome' = [call |-> "login", status |-> code,
                                  raised |-> NoError]
                   /\ _headers' =
                         Update(_headers,
                                ("X-API-USER" :> LoginData.id)
                                    @@ ("X-API-KEY" :> LoginData.apiToken))
              ELSE /\ outcome' = [call |-> "login", status |-> code,
                                  raised |-> _request(r)]
                   /\ UNCHANGED _headers
    /\ UNCHANGED <<avatarVars, apiVars, habitica, init_args, _session,
                   _close_session, context>>

\* login, the session raises: no connection or a timeout
login_failed ==
    /\ habitica = "ready"
    /\ ~_session.closed
    /\ Len(requests) < MaxRequests
    /\ requests' = Append(requests, Sent("post", LoginUrl))
    /\ \E exception \in {"ClientConnectionError", "TimeoutError"} :
          outcome' = [call |-> "login", status |-> 0, raised |-> exception]
    /\ UNCHANGED <<avatarVars, apiVars, habitica, init_args, _headers,
                   _session, _close_session, context>>

\* get_user(): a request of the client after its construction
get_user ==
    /\ habitica = "ready"
    /\ ~_session.closed
    /\ Len(requests) < MaxRequests
    /\ requests' = Append(requests, Sent("get", "api/v3/user"))
    /\ \E code \in Statuses :
          LET r == [status |-> code, headers |-> NoHeaders]
          IN  outcome' = [call |-> "get_user", status |-> code,
                          raised |-> IF _request(r) = "ok" THEN NoError
                                     ELSE _request(r)]
    /\ UNCHANGED <<avatarVars, apiVars, habitica, init_args, _headers,
                   _session, _close_session, context>>

NextClient ==
    \/ Habitica
    \/ __aenter__
    \/ __aexit__
    \/ login
    \/ login_failed
    \/ get_user

SpecClient == InitClient /\ [][NextClient]_vars

-----------------------------------------------------------------------------
(* Helpers of the properties *)

Assets(seq) == [i \in DOMAIN seq |-> seq[i].asset]

IsPrefix(a, b) == Len(a) <= Len(b) /\ a = SubSeq(b, 1, Len(a))

\* seq without the elements whose asset is in set
Without(seq, set) == SelectSeq(seq, LAMBDA l : l.asset \notin set)

Last(seq) == seq[Len(seq)]

\* the exceptions of an HTTP error status and of a transport error
ClientErrors == {"ClientResponseError", "ClientError"}

\* in this step the task's GET ends with an HTTP error status or a transport
\* error
FetchFails(t) ==
    /\ status[t] = "fetching"
    /\ status'[t] # "fetching"
    /\ response'[t] \in ClientErrors

-----------------------------------------------------------------------------
(* C1: a fetch failure (HTTP error status or transport error) of one layer *)
(* does not stop the render. The step in which the failure is caught       *)
(* leaves the task running at the next layer with its canvas unchanged;    *)
(* the layers attempted are always a prefix of the layers of the snapshot, *)
(* in their order; and a render that has returned has attempted every      *)
(* layer and pasted, in order, every layer whose fetch did not fail.       *)

C1_FailureStep ==
    \A t \in Tasks :
        FetchFails(t) =>
            /\ status'[t] = "running"
            /\ error'[t] = NoError
            /\ pc'[t] = pc[t] + 1
            /\ image'[t] = image[t]
            /\ Last(skipped'[t]) = Last(attempted[t]).asset

C1_LayersInOrder ==
    \A t \in Tasks :
        /\ IsPrefix(Assets(attempted[t]), Assets(program[t]))
        /\ status[t] = "returned" =>
              /\ Assets(attempted[t]) = Assets(program[t])
              /\ Assets(image[t])
                    = Assets(Without(program[t], Range(skipped[t])))

C1_FailureDoesNotStopRender ==
    [][C1_FailureStep /\ C1_LayersInOrder']_vars

\* a render returned although one of its layers, not the last one, failed
C1_Witness ==
    \E t \in Tasks :
        /\ status[t] = "returned"
        /\ Len(skipped[t]) = 1
        /\ \E i \in 1..(Len(attempted[t]) - 1) :
              /\ attempted[t][i].asset = skipped[t][1]
              /\ attempted[t][i + 1].asset \in Range(Assets(image[t]))

-----------------------------------------------------------------------------
(* C2: generate_avatar returns normally whatever the outcomes of the layer *)
(* fetches (success, HTTP error status, connection failure, timeout): no   *)
(* render ends with an exception.                                          *)

C2_RenderNeverRaises ==
    \A t \in Tasks : status[t] # "raised" /\ error[t] = NoError

-----------------------------------------------------------------------------
(* The layers by name, as the snapshot names them *)

NoBuff(s) ==
    /\ ~s.stats.buffs.seafoam
    /\ ~s.stats.buffs.shinySeed
    /\ ~s.stats.buffs.snowball
    /\ ~s.stats.buffs.spookySparkles

\* background, mount body, sleep marker, mount head and pet
OuterNames(s) ==
    {"background_" \o s.preferences.background,
     "Mount_Body_" \o s.items.currentMount, "zzz",
     "Mount_Head_" \o s.items.currentMount, "Pet-" \o s.items.currentPet}

\* the asset names an item of the slot can have, from either slot map
GearNames(s, g) ==
    LET ids == {s.items.gear.equipped[g], s.items.gear.costume[g]} \ {None}
    IN  UNION {{id, s.preferences.size \o "_" \o id}
                 \cup (IF id \in DOMAIN BACKER_ONLY_GEAR
                       THEN {BACKER_ONLY_GEAR[id]} ELSE {}) : id \in ids}

HairNames(s, region) ==
    {"hair_" \o region \o "_" \o ToString(s.preferences.hair[region]) \o "_"
        \o s.preferences.hair.color}

HairRegions == {"bangs", "base", "mustache", "beard"}

\* the layers of the gear branch in the order of the specification: chair,
\* back, skin, shirt, head_0, armor, bangs, base, mustache, beard, body,
\* eyewear, head, headAccessory, flower, shield, weapon
GearBranchOrder(s) ==
    <<{"chair_" \o s.preferences.chair},
      GearNames(s, "back"),
      {"skin_" \o s.preferences.skin, "skin_" \o s.preferences.skin \o "_sleep"},
      {s.preferences.size \o "_shirt_" \o s.preferences.shirt},
      {"head_0"},
      GearNames(s, "armor"),
      HairNames(s, "bangs"), HairNames(s, "base"),
      HairNames(s, "mustache"), HairNames(s, "beard"),
      GearNames(s, "body"), GearNames(s, "eyewear"),
      GearNames(s, "head"), GearNames(s, "headAccessory"),
      {"hair_flower_" \o ToString(s.preferences.hair.flower)},
      GearNames(s, "shield"), GearNames(s, "weapon")>>

\* the place of an asset in that order, 0 if it has none
Rank(order, asset) ==
    IF \E k \in DOMAIN order : asset \in order[k]
    THEN CHOOSE k \in DOMAIN order :
            /\ asset \in order[k]
            /\ \A j \in DOMAIN order : asset \in order[j] => k <= j
    ELSE 0

\* the assets attempted between the mount body and the sleep marker
Middle(t) ==
    LET outer == OuterNames(user_styles[t])
    IN  SelectSeq(Assets(attempted[t]), LAMBDA a : a \notin outer)

-----------------------------------------------------------------------------
(* C3: with no buff flag set, the layers attempted between the mount body  *)
(* and the sleep marker follow the order chair, back, skin, shirt, head_0, *)
(* armor, bangs, base, mustache, beard, body, eyewear, head,               *)
(* headAccessory, flower, shield, weapon, none of them twice; a hair       *)
(* region is attempted only if its style is nonzero; a render that has     *)
(* returned has attempted skin, shirt and head_0; and the render of        *)
(* background 010, skin 5, shirt blue, size slim attempts exactly          *)
(* background_010, skin_5, slim_shirt_blue, head_0.                        *)

C3_GearBranchOrder ==
    \A t \in Tasks :
        LET s == user_styles[t]
            order == GearBranchOrder(s)
            mid == Middle(t)
            ranks == [i \in DOMAIN mid |-> Rank(order, mid[i])]
        IN  NoBuff(s) =>
              /\ \A i \in DOMAIN ranks :
                    /\ ranks[i] > 0
                    /\ i > 1 => ranks[i - 1] < ranks[i]
              /\ \A region \in HairRegions :
                    (\E i \in DOMAIN mid : mid[i] \in HairNames(s, region))
                        => s.preferences.hair[region] # 0
              /\ status[t] = "returned" => {3, 4, 5} \subseteq Range(ranks)
              /\ (status[t] = "returned" /\ s = PlainStyles) =>
                    Assets(attempted[t]) = <<"background_010", "skin_5",
                                             "slim_shirt_blue", "head_0">>

\* the fully dressed avatar has been rendered: all seventeen layers
C3_Witness ==
    \E t \in Tasks :
        /\ status[t] = "returned"
        /\ user_styles[t] = DressedStyles
        /\ Len(Middle(t)) = Len(GearBranchOrder(DressedStyles))

-----------------------------------------------------------------------------
(* C4: a render takes exactly one of the two branches. If any of seafoam,  *)
(* shinySeed, snowball, spookySparkles is set no layer of the gear branch  *)
(* (chair, skin, shirt, head_0, gear, hair bangs/base/mustache/beard) is   *)
(* attempted; if none is set no buff layer (ghost, avatar_snowball_<class>,*)
(* avatar_floral_<class>, seafoam_star) is attempted.                      *)

GearBranchNames(s) ==
    LET order == GearBranchOrder(s)
    IN  UNION {order[k] : k \in DOMAIN order}
            \ {"hair_flower_" \o ToString(s.preferences.hair.flower)}

BuffBranchNames(s) ==
    {"ghost", "avatar_snowball_" \o s.stats.Class,
     "avatar_floral_" \o s.stats.Class, "seafoam_star"}

C4_OneBranch ==
    \A t \in Tasks :
        LET s == user_styles[t]
            names == Range(Assets(attempted[t]))
        IN  IF NoBuff(s)
            THEN names \cap BuffBranchNames(s) = {}
            ELSE names \cap GearBranchNames(s) = {}

\* a dressed avatar under the snowball buff alone has been rendered, and a
\* dressed avatar under all buffs has attempted its buff layers
C4_Witness ==
    \E t \in Tasks :
        /\ status[t] = "returned"
        /\ ~NoBuff(user_styles[t])
        /\ user_styles[t].items.gear.equipped.armor = "armor_warrior_1"
        /\ "ghost" \in Range(Assets(attempted[t]))

-----------------------------------------------------------------------------
(* C5: first-in-first-out eviction. Starting from the empty cache with     *)
(* cache_size >= 1, once cache_size + 1 distinct assets have been inserted *)
(* exactly the first one has been evicted and the others are in the cache. *)

Distinct(seq) == \A i, j \in DOMAIN seq : seq[i] = seq[j] => i = j

C5_FifoEviction ==
    (cache_size >= 1 /\ Len(stored) = cache_size + 1 /\ Distinct(stored)) =>
        /\ evicted = <<stored[1]>>
        /\ DOMAIN assets_cache = Range(Tail(stored))

-----------------------------------------------------------------------------
(* C6: once an insertion has completed the cache holds at most cache_size  *)
(* entries.                                                                *)

C6_CacheBounded ==
    /\ Cardinality(DOMAIN assets_cache) <= cache_size
    /\ Len(cache_order) <= cache_size

-----------------------------------------------------------------------------
(* C7: with cache_size = 0 the cache map and the insertion-order list stay *)
(* empty and every paste of an asset issues an HTTP GET.                   *)

C7_CachingDisabled ==
    cache_size = 0 =>
        /\ assets_cache = EmptyCache
        /\ cache_order = <<>>
        /\ \A t \in Tasks : \A i \in DOMAIN attempted[t] : attempted[t][i].get

\* without a cache an asset fetched and pasted before has been requested
\* again and pasted again
C7_Witness ==
    /\ cache_size = 0
    /\ \E t \in Tasks :
          /\ status[t] = "returned"
          /\ \E i, j \in DOMAIN gets :
                /\ i < j
                /\ gets[i] = gets[j]
                /\ j > Len(gets) - Len(attempted[t])
                /\ gets[j] \in Range(Assets(image[t]))
                /\ faults = 0

-----------------------------------------------------------------------------
(* C8: renders that run concurrently on one client are safe: no insertion  *)
(* into the cache and no eviction from it fails.                           *)

C8_ConcurrentRendersSafe ==
    \A t \in Tasks : error[t] # "KeyError"

-----------------------------------------------------------------------------
(* C9: paste_image issues an HTTP GET for an asset exactly if the asset is *)
(* not in the cache at that moment; with cache_size > 0 a successful GET   *)
(* stores the bytes under the asset; a paste that finds the asset in the   *)
(* cache issues no GET and pastes the stored bytes.                        *)

\* the task calls paste_image in this step
Pastes(t) == Len(attempted'[t]) = Len(attempted[t]) + 1

C9_Step ==
    \A t \in Tasks :
        /\ Pastes(t) =>
              LET a == Last(attempted'[t])
              IN  /\ a.get <=> a.asset \notin DOMAIN assets_cache
                  /\ a.get <=> gets' = Append(gets, a.asset)
                  /\ a.get <=> status'[t] = "fetching"
                  /\ ~a.get =>
                        /\ Len(image'[t]) = Len(image[t]) + 1
                        /\ Last(image'[t]).asset = a.asset
                        /\ Last(image'[t]).data = assets_cache[a.asset]
                        /\ Last(image'[t]).data = Bytes(a.asset)
        /\ ~Pastes(t) => (gets' = gets \/ \E u \in Tasks : Pastes(u))
        /\ (status[t] = "fetching" /\ response'[t] = "ok" /\ cache_size > 0
                /\ status'[t] # "fetching") =>
              LET a == Last(attempted[t])
              IN  /\ a.asset \in DOMAIN assets_cache'
                  /\ assets_cache'[a.asset] = Bytes(a.asset)

C9_GetIffNotCached == [][C9_Step]_vars

\* a render has pasted an asset from the cache that an earlier GET stored
C9_Witness ==
    \E t \in Tasks :
        /\ status[t] = "returned"
        /\ \E i \in DOMAIN attempted[t] :
              /\ ~attempted[t][i].get
              /\ attempted[t][i].asset \in Range(stored)
              /\ attempted[t][i].asset \in Range(Assets(image[t]))

-----------------------------------------------------------------------------
(* C10: a failed fetch (HTTP error status or transport error) leaves the   *)
(* cache map and the insertion-order list as they were and pastes nothing  *)
(* onto the canvas.                                                        *)

C10_Step ==
    \A t \in Tasks :
        FetchFails(t) =>
            /\ assets_cache' = assets_cache
            /\ cache_order' = cache_order
            /\ image'[t] = image[t]
            /\ Last(attempted[t]).asset \notin Range(Assets(image'[t]))

C10_FailedFetchChangesNothing == [][C10_Step]_vars

\* a fetch has failed on a client whose cache is in use
C10_Witness ==
    \E t \in Tasks :
        /\ status[t] = "running"
        /\ response[t] \in ClientErrors
        /\ Last(skipped[t]) = Last(attempted[t]).asset
        /\ cache_order # <<>>
        /\ image[t] # <<>>

-----------------------------------------------------------------------------
(* C11: a cache lookup has no side effect. A paste that finds its asset in *)
(* the cache leaves the cached entries and the eviction order as they      *)
(* were, so that the same lookup gives the same bytes again; and the       *)
(* entries are evicted in the order of their insertion, whichever of them  *)
(* were read in between: the evicted assets followed by the eviction order *)
(* are the inserted assets in the order of their insertion.                *)

\* the task's paste_image call of this step found the asset in the cache
CacheHit(t) == Pastes(t) /\ ~Last(attempted'[t]).get

C11_Step ==
    \A t \in Tasks :
        CacheHit(t) =>
            LET asset == Last(attempted'[t]).asset
            IN  /\ assets_cache' = assets_cache
                /\ cache_order' = cache_order
                /\ evicted' = evicted
                /\ Last(image'[t]).data = assets_cache'[asset]

C11_InsertionOrder ==
    /\ evicted \o cache_order = stored
    /\ DOMAIN assets_cache = Range(cache_order)

C11_LookupHasNoSideEffect == [][C11_Step /\ C11_InsertionOrder']_vars

\* an entry that was read after a younger entry was inserted has been
\* evicted while the younger entry, never read, has stayed
C11_Witness ==
    \E t \in Tasks : \E i \in DOMAIN attempted[t] :
        LET asset == attempted[t][i].asset
        IN  /\ ~attempted[t][i].get
            /\ evicted # <<>>
            /\ Last(evicted) = asset
            /\ Cardinality({k \in DOMAIN stored : stored[k] = asset}) = 1
            /\ \E a \in Range(cache_order) :
                  /\ \A j \in DOMAIN attempted[t] :
                        attempted[t][j].asset = a => attempted[t][j].get
                  /\ \E k, l \in DOMAIN stored :
                        stored[k] = asset /\ stored[l] = a /\ k < l

-----------------------------------------------------------------------------
(* The gear of a snapshot, as the snapshot names it *)

\* the slot map a render resolves its gear from
SelectedGear(s) ==
    IF s.preferences.costume THEN s.items.gear.costume
    ELSE s.items.gear.equipped

OtherGear(s) ==
    IF s.preferences.costume THEN s.items.gear.equipped
    ELSE s.items.gear.costume

\* every asset name an item id can be given
NamesOf(s, id) ==
    {id, s.preferences.size \o "_" \o id}
        \cup (IF id \in DOMAIN BACKER_ONLY_GEAR THEN {BACKER_ONLY_GEAR[id]}
              ELSE {})

AttemptedNames(t) == Range(Assets(attempted[t]))

-----------------------------------------------------------------------------
(* C12: for every gear slot, if the item id of the selected slot map is    *)
(* absent or is "<slot>_base_0", no asset is requested and no layer is     *)
(* drawn for the slot: none of the names an item of the slot could have is *)
(* among the assets of the paste_image calls or on the canvas.             *)

C12_BaseGearSkipped ==
    \A t \in Tasks : \A g \in Slots :
        LET s == user_styles[t]
            id == SelectedGear(s)[g]
            names == NamesOf(s, g \o "_base_0") \cup NamesOf(s, None)
                        \cup GearNames(s, g)
        IN  (id = None \/ id = g \o "_base_0") =>
                /\ AttemptedNames(t) \cap names = {}
                /\ Range(Assets(image[t])) \cap names = {}
                /\ Range(gets) \cap names = {}

\* the dressed avatar with the base armor has been rendered: every layer
\* of the gear branch but the armor
C12_Witness ==
    \E t \in Tasks :
        /\ status[t] = "returned"
        /\ user_styles[t] =
              [DressedStyles EXCEPT !.items.gear.equipped.armor = "armor_base_0"]
        /\ Len(Middle(t)) = Len(GearBranchOrder(DressedStyles)) - 1

-----------------------------------------------------------------------------
(* C13: the asset requested for a gear item that is neither absent nor the *)
(* base item is the file name of the special asset map if the id is in the *)
(* map, for the armor too and without the size; otherwise "<size>_<id>" in *)
(* the armor slot; otherwise the id itself. Size broad and armor           *)
(* armor_warrior_1 give broad_armor_warrior_1.                             *)

ResolvedName(s, g, id) ==
    IF id \in DOMAIN BACKER_ONLY_GEAR THEN BACKER_ONLY_GEAR[id]
    ELSE IF g = "armor" THEN s.preferences.size \o "_" \o id
    ELSE id

C13_GearAssetName ==
    \A t \in Tasks :
        LET s == user_styles[t]
        IN  /\ \A g \in Slots :
                  LET id == SelectedGear(s)[g]
                  IN  (id # None /\ id # g \o "_base_0" /\ NoBuff(s)) =>
                        /\ status[t] = "returned" =>
                              ResolvedName(s, g, id) \in AttemptedNames(t)
                        /\ AttemptedNames(t)
                              \cap (NamesOf(s, id) \ {ResolvedName(s, g, id)})
                                = {}
            /\ (/\ status[t] = "returned"
                /\ NoBuff(s)
                /\ ~s.preferences.costume
                /\ s.preferences.size = "broad"
                /\ s.items.gear.equipped.armor = "armor_warrior_1") =>
                  "broad_armor_warrior_1" \in AttemptedNames(t)

\* an armor of the special asset map has been requested under its file name,
\* and a head item of the map as well
C13_Witness ==
    \E t \in Tasks :
        /\ status[t] = "returned"
        /\ user_styles[t].items.gear.equipped.armor = "armor_special_ks2019"
        /\ user_styles[t].items.gear.equipped.head = "head_warrior_1"
        /\ BACKER_ONLY_GEAR["armor_special_ks2019"] \in AttemptedNames(t)
        /\ "head_warrior_1" \in AttemptedNames(t)

-----------------------------------------------------------------------------
(* C14: within one render every gear slot is resolved from the same slot   *)
(* map, the costume map if preferences.costume is set and the equipped map *)
(* otherwise: an item that only the other map holds is never requested,    *)
(* and a render that has returned has requested the item of the selected   *)
(* map for every slot that has one.                                        *)

C14_OneSlotMap ==
    \A t \in Tasks : \A g \in Slots :
        LET s == user_styles[t]
            id == SelectedGear(s)[g]
            other == OtherGear(s)[g]
        IN  /\ (other # None /\ other # id) =>
                  /\ AttemptedNames(t) \cap NamesOf(s, other) = {}
                  /\ Range(gets) \cap NamesOf(s, other) = {}
            /\ (/\ status[t] = "returned"
                /\ NoBuff(s)
                /\ id # None
                /\ id # g \o "_base_0") =>
                  AttemptedNames(t) \cap NamesOf(s, id) # {}

\* the dressed avatar has been rendered in its costume
C14_Witness ==
    \E t \in Tasks :
        /\ status[t] = "returned"
        /\ user_styles[t] = [DressedStyles EXCEPT !.preferences.costume = TRUE]
        /\ \A g \in Slots :
              AttemptedNames(t) \cap NamesOf(user_styles[t], g \o "_rogue_1")
                # {}

-----------------------------------------------------------------------------
(* C15: under a buff the layers attempted between the mount body and the   *)
(* sleep marker are, in this order, ghost (spookySparkles),                *)
(* avatar_snowball_<class> (shinySeed), avatar_floral_<class> (shinySeed), *)
(* seafoam_star (seafoam) and hair_flower_<id> (a hair flower is set),     *)
(* each only if its gate is on, and in a render that has returned each     *)
(* whose gate is on. The snowball buff selects the branch and gates no     *)
(* layer.                                                                  *)

BuffBranchOrder(s) ==
    <<{"ghost"}, {"avatar_snowball_" \o s.stats.Class},
      {"avatar_floral_" \o s.stats.Class}, {"seafoam_star"},
      {"hair_flower_" \o ToString(s.preferences.hair.flower)}>>

BuffGates(s) ==
    <<s.stats.buffs.spookySparkles, s.stats.buffs.shinySeed,
      s.stats.buffs.shinySeed, s.stats.buffs.seafoam,
      s.preferences.hair.flower # 0>>

C15_BuffBranchOrder ==
    \A t \in Tasks :
        LET s == user_styles[t]
            order == BuffBranchOrder(s)
            mid == Middle(t)
            ranks == [i \in DOMAIN mid |-> Rank(order, mid[i])]
        IN  ~NoBuff(s) =>
              /\ \A i \in DOMAIN ranks :
                    /\ ranks[i] > 0
                    /\ BuffGates(s)[ranks[i]]
                    /\ i > 1 => ranks[i - 1] < ranks[i]
              /\ status[t] = "returned" =>
                    \A k \in DOMAIN order :
                        BuffGates(s)[k] => k \in Range(ranks)

\* an avatar under every buff has been rendered with its five layers, and
\* the snowball buff is among the buffs
C15_Witness ==
    \E t \in Tasks :
        /\ status[t] = "returned"
        /\ user_styles[t] = BuffedStyles
        /\ Middle(t) = <<"ghost", "avatar_snowball_warrior",
                         "avatar_floral_warrior", "seafoam_star",
                         "hair_flower_1">>

-----------------------------------------------------------------------------
(* C16: in both branches the background, if set, is attempted before every *)
(* other layer, Mount_Body_<mount>, if a mount is set, right after it,     *)
(* then the layers of the branch, then zzz if the avatar sleeps, then      *)
(* Mount_Head_<mount> if a mount is set, and Pet-<pet>, if a pet is set,   *)
(* is the last layer attempted. With mount and pet Wolf-Base and nothing   *)
(* else the order is Mount_Body_Wolf-Base, the gear layers,                *)
(* Mount_Head_Wolf-Base, Pet-Wolf-Base.                                    *)

OuterOrder(s) ==
    <<"background_" \o s.preferences.background,
      "Mount_Body_" \o s.items.currentMount, "",
      "zzz", "Mount_Head_" \o s.items.currentMount,
      "Pet-" \o s.items.currentPet>>

OuterGates(s) ==
    <<Truthy(s.preferences.background), Truthy(s.items.currentMount), TRUE,
      s.preferences.sleep, Truthy(s.items.currentMount),
      Truthy(s.items.currentPet)>>

\* the place of a layer in the outer order; 3 is a layer of the branch
OuterRank(s, asset) ==
    IF \E k \in DOMAIN OuterOrder(s) : OuterOrder(s)[k] = asset
    THEN CHOOSE k \in DOMAIN OuterOrder(s) : OuterOrder(s)[k] = asset
    ELSE 3

C16_OuterOrder ==
    \A t \in Tasks :
        LET s == user_styles[t]
            names == Assets(attempted[t])
            ranks == [i \in DOMAIN names |-> OuterRank(s, names[i])]
        IN  /\ \A i \in DOMAIN ranks :
                  /\ OuterGates(s)[ranks[i]]
                  /\ i > 1 =>
                        \/ ranks[i - 1] < ranks[i]
                        \/ ranks[i - 1] = 3 /\ ranks[i] = 3
            /\ status[t] = "returned" =>
                  /\ \A k \in {1, 2, 4, 5, 6} :
                        OuterGates(s)[k] => k \in Range(ranks)
                  /\ Truthy(s.preferences.background) => ranks[1] = 1
                  /\ Truthy(s.items.currentMount) =>
                        ranks[IF Truthy(s.preferences.background)
                              THEN 2 ELSE 1] = 2
                  /\ Truthy(s.items.currentPet) => ranks[Len(ranks)] = 6
            /\ (status[t] = "returned" /\ s = RiderStyles) =>
                  names = <<"Mount_Body_Wolf-Base", "skin_None",
                            "None_shirt_None", "head_0",
                            "Mount_Head_Wolf-Base", "Pet-Wolf-Base">>

\* a sleeping avatar with background, mount and pet has been rendered, in
\* the gear branch
C16_Witness ==
    \E t \in Tasks :
        /\ status[t] = "returned"
        /\ user_styles[t] = DressedStyles
        /\ Len(attempted[t]) = Len(GearBranchOrder(DressedStyles)) + 5
        /\ attempted[t][1].asset = "background_010"
        /\ attempted[t][2].asset = "Mount_Body_Wolf-Base"
        /\ Last(attempted[t]).asset = "Pet-Wolf-Base"

-----------------------------------------------------------------------------
(* C17: the mount offset is 0 if currentMount is set and 24 otherwise, the *)
(* same for the whole render, and every layer is pasted at                 *)
(* (24, mount offset) except the background at (0, 0), the body and the    *)
(* head of the mount at (24, 18), the chair at (24, 0) and the pet at      *)
(* (0, 48).                                                                *)

ExpectedPosition(s, asset) ==
    LET mountOffsetY == IF s.items.currentMount # None THEN 0 ELSE 24
    IN  CASE asset = "background_" \o s.preferences.background -> <<0, 0>>
          [] asset = "Mount_Body_" \o s.items.currentMount -> <<24, 18>>
          [] asset = "Mount_Head_" \o s.items.currentMount -> <<24, 18>>
          [] asset = "chair_" \o s.preferences.chair -> <<24, 0>>
          [] asset = "Pet-" \o s.items.currentPet -> <<0, 48>>
          [] OTHER -> <<24, mountOffsetY>>

C17_LayerPositions ==
    \A t \in Tasks :
        LET s == user_styles[t]
        IN  /\ \A i \in DOMAIN attempted[t] :
                  attempted[t][i].position
                      = ExpectedPosition(s, attempted[t][i].asset)
            /\ \A i \in DOMAIN image[t] :
                  image[t][i].position
                      = ExpectedPosition(s, image[t][i].asset)

\* a mounted avatar has been rendered with its body at (24, 0), and its
\* background, mount, chair and pet at their own places
C17_Witness ==
    \E t \in Tasks :
        /\ status[t] = "returned"
        /\ user_styles[t] = DressedStyles
        /\ \E i \in DOMAIN image[t] :
              image[t][i].asset = "head_0" /\ image[t][i].position = <<24, 0>>
        /\ \E i \in DOMAIN image[t] :
              /\ image[t][i].asset = "chair_throne"
              /\ image[t][i].position = <<24, 0>>
        /\ \E i \in DOMAIN image[t] :
              /\ image[t][i].asset = "Pet-Wolf-Base"
              /\ image[t][i].position = <<0, 48>>
        /\ \E i \in DOMAIN image[t] :
              /\ image[t][i].asset = "Mount_Head_Wolf-Base"
              /\ image[t][i].position = <<24, 18>>

-----------------------------------------------------------------------------
(* C18: generate_avatar called with a snapshot returns a value equal to    *)
(* that snapshot, whatever the outcomes of the layer fetches: every render *)
(* that has ended has handed the snapshot it was called with back to its   *)
(* caller.                                                                 *)

C18_ReturnsSnapshot ==
    \A t \in Tasks :
        status[t] \in {"returned", "raised"} =>
            /\ status[t] = "returned"
            /\ result[t] = user_styles[t]

-----------------------------------------------------------------------------
(* C19: an answer with HTTP status 429 to a get_group_members request is   *)
(* not raised to the caller: the method sleeps for the retry_after of the  *)
(* answer's retry-after header (rounded to seconds, 0 without the header)  *)
(* and then issues the same request again, with the same url and params;   *)
(* any other error is raised and no further request is issued.             *)

\* the retry-after headers in tenths of a second, and their delays
ExpectedDelay(headers) ==
    IF headers = NoHeaders THEN 0
    ELSE CASE headers["retry-after"] = 4 -> 0
           [] headers["retry-after"] = 15 -> 2
           [] headers["retry-after"] = 25 -> 2

C19_Step ==
    /\ (gm_state = "requesting" /\ gm_answer'.status = 429) =>
          /\ gm_state' = "sleeping"
          /\ gm_error' = NoError
          /\ gm_sleeps' = Append(gm_sleeps, ExpectedDelay(gm_answer'.headers))
          /\ gm_requests' = gm_requests
    /\ gm_state = "sleeping" =>
          /\ gm_state' = "requesting"
          /\ gm_error' = NoError
          /\ gm_requests' = Append(gm_requests, Last(gm_requests))
    /\ (gm_state = "requesting" /\ gm_answer'.status \notin {200, 429}) =>
          /\ gm_state' = "raised"
          /\ gm_error' \notin {NoError, "TooManyRequestsError"}
          /\ gm_requests' = gm_requests
          /\ gm_sleeps' = gm_sleeps
    /\ gm_state = "raised" => gm_requests' = gm_requests

C19_RetryAfterTooManyRequests == [][C19_Step]_vars

\* a call has returned after its request for a second page was answered
\* with 429 and a retry-after of 1.5 seconds, and was issued again
C19_Witness ==
    /\ gm_state = "returned"
    /\ 2 \in Range(gm_sleeps)
    /\ \E i \in 1..(Len(gm_requests) - 1) :
          /\ gm_requests[i] = gm_requests[i + 1]
          /\ gm_requests[i].params.lastId # Nothing
    /\ Len(gm_result) = server_members

-----------------------------------------------------------------------------
(* C20: get_group_members pages through the results to collect all         *)
(* members: for every limit, the default (limit not given) included, a     *)
(* call that has returned has returned every member of the group exactly   *)
(* once, in the order of the server, and every request after the first     *)
(* page carries the id of the last member of the page before as lastId.    *)

AllMembers == [i \in 1..server_members |-> i]

C20_AllMembersReturned ==
    /\ gm_state = "returned" => gm_result = AllMembers
    /\ \A i \in DOMAIN gm_pages :
          \E k \in DOMAIN gm_requests :
              gm_requests[k].params.lastId = Some(Last(gm_pages[i]))

-----------------------------------------------------------------------------
(* C21: a successful login sets the X-API-USER and X-API-KEY headers of    *)
(* the client to the id and the apiToken of the login response, in place   *)
(* of the credentials of the constructor; a login that raises leaves the   *)
(* headers as they were; every request carries the headers the client has  *)
(* at that moment, and nothing but a successful login changes them, so     *)
(* every later request carries the credentials of the login.               *)

\* a request is handed to the session in this step
Sends == Len(requests') = Len(requests) + 1

LoginStep == Sends /\ Last(requests').url = LoginUrl

CredentialHeaders == {"X-API-USER", "X-API-KEY"}

C21_Step ==
    /\ (LoginStep /\ outcome'.raised = NoError) =>
          /\ _headers'["X-API-USER"] = LoginData.id
          /\ _headers'["X-API-KEY"] = LoginData.apiToken
          /\ \A h \in DOMAIN _headers \ CredentialHeaders :
                h \in DOMAIN _headers' /\ _headers'[h] = _headers[h]
    /\ (LoginStep /\ outcome'.raised # NoError) => _headers' = _headers
    /\ Sends =>
          /\ requests' = Append(requests, Last(requests'))
          /\ Last(requests').headers = _headers
    /\ (habitica = "ready" /\ ~LoginStep) => _headers' = _headers

C21_LoginSetsCredentials == [][C21_Step]_vars

\* a client constructed with credentials has logged in, and its next
\* request carried the credentials of the login
C21_Witness ==
    /\ init_args.api_user = "user-1"
    /\ Len(requests) >= 2
    /\ requests[1].url = LoginUrl
    /\ requests[1].headers["X-API-USER"] = "user-1"
    /\ requests[2].headers["X-API-USER"] = LoginData.id
    /\ requests[2].headers["X-API-KEY"] = LoginData.apiToken

-----------------------------------------------------------------------------
(* C22: _request turns the status of the answer into exactly one outcome:  *)
(* 401 raises NotAuthorizedError, 404 NotFoundError, 400 BadRequestError,  *)
(* 429 TooManyRequestsError, any other status from 400 on                  *)
(* ClientResponseError, and a status below 400 returns the text.           *)

ExpectedOutcome(code) ==
    IF code < 400 THEN NoError
    ELSE IF code = 401 THEN "NotAuthorizedError"
    ELSE IF code = 404 THEN "NotFoundError"
    ELSE IF code = 400 THEN "BadRequestError"
    ELSE IF code = 429 THEN "TooManyRequestsError"
    ELSE "ClientResponseError"

-----------------------------------------------------------------------------
(* C23: the constructor takes api_user and api_key only together. With     *)
(* both given the X-API-USER and X-API-KEY headers are set to them, with   *)
(* exactly one given it raises ValueError, with none given no credential   *)
(* header is set. An empty string counts as not given.                     *)

Given(x) == x # None /\ x # ""

C23_CredentialsTogether ==
    outcome.call = "__init__" =>
        LET user == Given(init_args.api_user)
            key == Given(init_args.api_key)
        IN  /\ (user /\ key) =>
                  /\ habitica = "ready"
                  /\ _headers["X-API-USER"] = init_args.api_user
                  /\ _headers["X-API-KEY"] = init_args.api_key
            /\ (user # key) =>
                  /\ habitica = "raised"
                  /\ outcome.raised = "ValueError"
            /\ (~user /\ ~key) =>
                  /\ habitica = "ready"
                  /\ DOMAIN _headers \cap CredentialHeaders = {}

\* the constructor has raised for a user without a key
C23_Witness ==
    /\ outcome.call = "__init__"
    /\ init_args.api_user = "user-1"
    /\ init_args.api_key = None
    /\ habitica = "raised"
    /\ outcome.raised = "ValueError"

-----------------------------------------------------------------------------
(* C28: leaving the async context of the client closes the HTTP session    *)
(* exactly if the client created the session itself; a session supplied by *)
(* the caller is never closed by the client.                               *)

ExitStep == context = "inside" /\ context' = "left"

C28_Step ==
    /\ ExitStep => (_session'.closed <=> _session.created_by = "client")
    /\ _session'.closed # _session.closed => ExitStep
    /\ _session'.created_by = "caller" => ~_session'.closed

C28_OwnSessionClosed == [][C28_Step]_vars

\* a client without a session argument has left its context, its session
\* is closed
C28_Witness ==
    /\ context = "left"
    /\ init_args.session = None
    /\ _session.created_by = "client"
    /\ _session.closed

-----------------------------------------------------------------------------
(* C29: if the constructor raises ValueError because only one of api_user  *)
(* and api_key was given, no HTTP session created by that constructor call *)
(* is left open.                                                           *)

C29_NoSessionLeftOpen ==
    (habitica = "raised" /\ outcome.raised = "ValueError") =>
        ~(_session.created_by = "client" /\ ~_session.closed)

-----------------------------------------------------------------------------
(* C24: within one generate_avatar call the layers are handled strictly    *)
(* one after the other: when the fetch of a layer is started every layer   *)
(* before it has been pasted or skipped, so at most one fetch of the       *)
(* render is in flight, the one of the layer attempted last.               *)

C24_LayersSequential ==
    \A t \in Tasks :
        /\ pc[t] = Len(image[t]) + Len(skipped[t])
        /\ Len(attempted[t]) =
              pc[t] + (IF status[t] \in {"fetching", "raised"} THEN 1 ELSE 0)
        /\ status[t] = "fetching" => Last(attempted[t]).get
        /\ \A i \in 1..pc[t] :
              attempted[t][i].asset
                  \in Range(Assets(image[t])) \cup Range(skipped[t])

\* a fetch is in flight after the layer before it has been composited
C24_Witness ==
    \E t \in Tasks :
        /\ status[t] = "fetching"
        /\ pc[t] >= 1
        /\ Len(image[t]) = pc[t]
        /\ Last(image[t]).asset = attempted[t][pc[t]].asset

-----------------------------------------------------------------------------
(* C25: no retry. A GET is issued only by a paste_image call for its       *)
(* layer; the step in which a GET fails issues no GET and moves on to the  *)
(* next layer; no layer is attempted twice in a render, so the GETs of a   *)
(* render are never more than the layers it attempts.                      *)

C25_Step ==
    /\ \A t \in Tasks :
          FetchFails(t) =>
              /\ gets' = gets
              /\ attempted'[t] = attempted[t]
              /\ pc'[t] = pc[t] + 1
    /\ gets' # gets =>
          \E t \in Tasks :
              /\ Pastes(t)
              /\ gets' = Append(gets, Last(attempted'[t]).asset)

C25_AttemptedOnce ==
    \A t \in Tasks : Distinct(Assets(attempted[t]))

C25_NoRetry == [][C25_Step /\ C25_AttemptedOnce']_vars

\* the only render so far has returned with a layer skipped, and that layer
\* was requested once
C25_Witness ==
    \E t \in Tasks :
        /\ status[t] = "returned"
        /\ renders = 1
        /\ Len(skipped[t]) = 1
        /\ Cardinality({i \in DOMAIN gets : gets[i] = skipped[t][1]}) = 1
        /\ Len(gets) <= Len(attempted[t])

-----------------------------------------------------------------------------
(* C26: when generate_avatar is given a file path, the image is written to *)
(* that path by the time the call returns, as it is for a bytes buffer.    *)

C26_SavedOnReturn ==
    \A t \in Tasks : status[t] = "returned" => sink[t].saved

-----------------------------------------------------------------------------
(* C27: on a client whose renders run one at a time the insertion-order    *)
(* list has no duplicates and its elements are exactly the keys of the     *)
(* cache map, so that an eviction always deletes a key that is present.    *)

C27_OrderMatchesMap ==
    /\ Distinct(cache_order)
    /\ Range(cache_order) = DOMAIN assets_cache
    /\ \A t \in Tasks : error[t] # "KeyError"

\* an eviction has happened and the cache is in use
C27_Witness ==
    /\ evicted # <<>>
    /\ Len(cache_order) >= 2
    /\ Last(evicted) \notin DOMAIN assets_cache

-----------------------------------------------------------------------------
(* C30: get_group_members terminates, by returning or by raising, when the *)
(* server answers a request with 429 finitely many times and in the end    *)
(* sends a page shorter than limit. The loop itself has no retry limit:    *)
(* only the number of 429 answers of the server bounds the retries.        *)

C30_Terminates ==
    (gm_state \in {"requesting", "sleeping"})
        ~> (gm_state \in {"returned", "raised"})

\* every 429 the server had to give went to the first request, and the
\* call returned after them
C30_Witness ==
    /\ gm_state = "returned"
    /\ Len(gm_sleeps) = MaxRetries
    /\ gm_pages = <<>>
    /\ Len(gm_requests) = MaxRetries + 1

=============================================================================
